---- MODULE Spec2Model ----
(***************************************************************************)
(* Model of lighthouse-core/audits/seo/font-size.js: the font-size audit.  *)
(*                                                                         *)
(* JavaScript values are represented as follows.                           *)
(*  - An optional value (undefined / absent property) is the empty         *)
(*    sequence Absent; a present value x is the one-element sequence       *)
(*    Some(x), read back with Get.                                         *)
(*  - Objects that the code may mutate (the fragments of                   *)
(*    analyzedFailingNodesData and the objects built by                    *)
(*    getUniqueFailingRules) live in a heap: a sequence of objects, a      *)
(*    reference being an index into it.  Arrays are sequences of           *)
(*    references.                                                          *)
(*  - A percentage formatted by toFixed(2) is the integer number of        *)
(*    hundredths of a percent it prints ("14.29%" is 1429).  The double    *)
(*    arithmetic of the code is exact on the integers of the model up to   *)
(*    errors far smaller than the distance of any quotient from a          *)
(*    rounding boundary, so quotients are compared as exact rationals.     *)
(***************************************************************************)
EXTENDS Integers, Sequences, FiniteSets, TLC

VARIABLES
  heap,              \* the objects: heap[ref] is the fragment or rule at ref
  artifacts,         \* the artifacts given to audit
  pc,                \* the position of the function being run
  result,            \* Absent, or Some(value last returned)
  failingRules,      \* audit's local failingRules when it last returned (copies)
  styleDeclaration   \* the style declaration given to findStyleRuleSource

vars == <<heap, artifacts, pc, result, failingRules, styleDeclaration>>

(***************************************************************************)
(* Bounds of the model.                                                    *)
(***************************************************************************)
MaxFragments == 3
MaxTotal == 7
MaxLine == 2

Absent == <<>>
Some(x) == <<x>>
Get(opt) == opt[1]

RECURSIVE SeqSum(_)
SeqSum(s) == IF s = <<>> THEN 0 ELSE Head(s) + SeqSum(Tail(s))

(***************************************************************************)
(* Strings.  Character-level functions are tabulated on the vocabulary of  *)
(* the model; concatenation is real string concatenation.                  *)
(***************************************************************************)
toLowerCase(s) ==
  CASE s = "ID" -> "id"
    [] s = "CLASS" -> "class"
    [] s = "DIV" -> "div"
    [] OTHER -> s

trim(s) ==
  CASE s = " main " -> "main"
    [] s = "  " -> ""
    [] OTHER -> s

\* attrClass.split(/\s+/).join('.')
SplitJoinDots(s) ==
  CASE s = "a  b" -> "a.b"
    [] OTHER -> s

RECURSIVE Join(_, _)
Join(strs, sep) ==
  IF strs = <<>> THEN ""
  ELSE IF Len(strs) = 1 THEN strs[1]
  ELSE strs[1] \o sep \o Join(Tail(strs), sep)

MINIMAL_PERCENTAGE_OF_LEGIBLE_TEXT == 60

explanationViewport ==
  "Text is illegible because there's no viewport meta tag optimized for mobile screens."

(***************************************************************************)
(* getAttributeMap: the Map from lower-cased name to trimmed value, as a   *)
(* sequence of <<name, value>> pairs; a later set() of a name overwrites.  *)
(***************************************************************************)
MapHas(map, k) == \E i \in 1..Len(map) : map[i][1] = k
MapGet(map, k) == map[CHOOSE i \in 1..Len(map) : map[i][1] = k][2]
MapSet(map, k, v) ==
  IF MapHas(map, k)
  THEN [i \in 1..Len(map) |-> IF map[i][1] = k THEN <<k, v>> ELSE map[i]]
  ELSE Append(map, <<k, v>>)

RECURSIVE AttributeLoop(_, _, _)
AttributeLoop(attributes, i, map) ==
  IF i >= Len(attributes) THEN map
  ELSE LET name == toLowerCase(attributes[i])
           value == trim(attributes[i + 1])
       IN AttributeLoop(attributes, i + 2,
                        IF value # "" THEN MapSet(map, name, value) ELSE map)

getAttributeMap(attributes) == AttributeLoop(attributes, 1, <<>>)

getSelector(node) ==
  LET attributeMap == getAttributeMap(node.attributes)
  IN IF MapHas(attributeMap, "id") THEN "#" \o MapGet(attributeMap, "id")
     ELSE IF MapHas(attributeMap, "class")
          THEN "." \o SplitJoinDots(MapGet(attributeMap, "class"))
          ELSE toLowerCase(node.localName)

RECURSIVE AttributesString(_, _)
AttributesString(attributes, idx) ==
  IF idx > Len(attributes) THEN ""
  ELSE (IF idx % 2 = 1 THEN " " \o attributes[idx]
        ELSE "=\"" \o attributes[idx] \o "\"")
       \o AttributesString(attributes, idx + 1)

nodeToTableNode(node) ==
  [type |-> "node",
   selector |-> IF node.parentNode # Absent THEN getSelector(Get(node.parentNode)) ELSE "",
   snippet |-> "<" \o node.localName \o AttributesString(node.attributes, 1) \o ">"]

\* A selector that is a plain string (the other kind of selector is the
\* NodeValue object of nodeToTableNode).
StringSelector(s) == [type |-> "string", value |-> s]

SelectorsText(parentRule) ==
  Join([i \in 1..Len(parentRule.selectors) |-> parentRule.selectors[i].text], ", ")

(***************************************************************************)
(* findStyleRuleSource(baseURL, styleDeclaration, node)                    *)
(***************************************************************************)
\* A changed SourceLocation: the column of the <style> element is always added.
SourceLocationColumnAlways(decl) ==
  LET range == Get(decl.range)
      stylesheet == Get(decl.stylesheet)
      urlProvider == IF stylesheet.hasSourceURL THEN "comment" ELSE "network"
      addHtmlLocationOffset == stylesheet.isInline /\ urlProvider # "comment"
  IN [type |-> "source-location", url |-> stylesheet.sourceURL,
      urlProvider |-> urlProvider,
      line |-> IF addHtmlLocationOffset
               THEN range.startLine + stylesheet.startLine ELSE range.startLine,
      column |-> IF addHtmlLocationOffset
                 THEN range.startColumn + stylesheet.startColumn
                 ELSE range.startColumn]

\* lines 158-189: the source-location branch
SourceLocation(decl) ==
  LET range == Get(decl.range)
      stylesheet == Get(decl.stylesheet)
      urlProvider == IF stylesheet.hasSourceURL THEN "comment" ELSE "network"
      addHtmlLocationOffset == stylesheet.isInline /\ urlProvider # "comment"
      line == IF addHtmlLocationOffset
              THEN range.startLine + stylesheet.startLine
              ELSE range.startLine
      column == IF addHtmlLocationOffset /\ range.startLine = 0
                THEN range.startColumn + stylesheet.startColumn
                ELSE range.startColumn
  IN [type |-> "source-location", url |-> stylesheet.sourceURL,
      urlProvider |-> urlProvider, line |-> line, column |-> column]

\* A changed IsDynamic: the hasSourceURL flag is read in place of sourceURL.
IsDynamicByFlag(decl) ==
  decl.stylesheet # Absent /\ ~Get(decl.stylesheet).hasSourceURL

\* line 147: a stylesheet without a sourceURL was injected into the page
IsDynamic(decl) ==
  decl.stylesheet # Absent /\ Get(decl.stylesheet).sourceURL = ""

findStyleRuleSource(baseURL, styleDecl, node) ==
  IF \/ styleDecl = Absent
     \/ Get(styleDecl).type = "Attributes"
     \/ Get(styleDecl).type = "Inline"
  THEN [source |-> [type |-> "url", value |-> baseURL],
        selector |-> nodeToTableNode(node)]
  ELSE
    LET decl == Get(styleDecl)
        selector == IF decl.parentRule # Absent
                    THEN SelectorsText(Get(decl.parentRule))
                    ELSE ""
    IN IF decl.parentRule # Absent /\ Get(decl.parentRule).origin = "user-agent"
       THEN [source |-> [type |-> "code", value |-> "User Agent Stylesheet"],
             selector |-> StringSelector(SelectorsText(Get(decl.parentRule)))]
       ELSE IF IsDynamic(decl)
       THEN [source |-> [type |-> "code", value |-> "dynamic"],
             selector |-> StringSelector(selector)]
       ELSE IF decl.stylesheet # Absent /\ decl.range # Absent
       THEN [source |-> SourceLocation(decl), selector |-> StringSelector(selector)]
       ELSE [selector |-> StringSelector(selector),
             source |-> [type |-> "code", value |-> "Unknown"]]

(***************************************************************************)
(* getFontArtifactId(styleDeclaration, node)                               *)
(***************************************************************************)
\* A changed getFontArtifactId: the column is left out of the id.
getFontArtifactIdNoColumn(styleDecl, node) ==
  IF styleDecl # Absent /\ Get(styleDecl).type = "Regular"
  THEN LET decl == Get(styleDecl)
           startLine == IF decl.range # Absent THEN Get(decl.range).startLine ELSE 0
       IN decl.styleSheetId \o "@" \o ToString(startLine)
  ELSE "node_" \o ToString(node.nodeId)

getFontArtifactId(styleDecl, node) ==
  IF styleDecl # Absent /\ Get(styleDecl).type = "Regular"
  THEN LET decl == Get(styleDecl)
           startLine == IF decl.range # Absent THEN Get(decl.range).startLine ELSE 0
           startColumn == IF decl.range # Absent THEN Get(decl.range).startColumn ELSE 0
       IN decl.styleSheetId \o "@" \o ToString(startLine) \o ":" \o ToString(startColumn)
  ELSE "node_" \o ToString(node.nodeId)

(***************************************************************************)
(* getUniqueFailingRules(fontSizeArtifact).  failingRules, a Map, is the   *)
(* sequence of its entries [key, ref] in insertion order.  The operator    *)
(* returns the heap after the call and the array [...failingRules.values()]*)
(* of references.                                                          *)
(***************************************************************************)
\* A changed NewFailingRule: the Map keeps the fragment object itself.
NewFailingRuleAliased(h, ref) == [heap |-> h, ref |-> ref]

\* lines 44-49: failingRules.set(artifactId, {node, cssRule, fontSize, textLength})
\* stores a newly allocated object holding the four fields of the fragment.
NewFailingRule(h, ref) ==
  [heap |-> Append(h, [node |-> h[ref].node, cssRule |-> h[ref].cssRule,
                       fontSize |-> h[ref].fontSize, textLength |-> h[ref].textLength]),
   ref |-> Len(h) + 1]

\* Changed AddTextLength: a repeat adds nothing / a repeat overwrites the total.
AddTextLengthDropped(h, ruleRef, textLength) == h
AddTextLengthOverwritten(h, ruleRef, textLength) ==
  [h EXCEPT ![ruleRef].textLength = textLength]

\* line 51: failingRule.textLength += textLength
AddTextLength(h, ruleRef, textLength) ==
  [h EXCEPT ![ruleRef].textLength = @ + textLength]

FailingRulesGet(map, artifactId) ==
  LET hits == {i \in 1..Len(map) : map[i].key = artifactId}
  IN IF hits = {} THEN Absent ELSE Some(map[CHOOSE i \in hits : TRUE].ref)

\* lines 39-53: the body of the forEach callback
VisitFragment(acc, ref) ==
  LET fragment == acc.heap[ref]
      artifactId == getFontArtifactId(fragment.cssRule, fragment.node)
      failingRule == FailingRulesGet(acc.failingRules, artifactId)
  IN IF failingRule = Absent
     THEN LET new == NewFailingRule(acc.heap, ref)
          IN [heap |-> new.heap,
              failingRules |-> Append(acc.failingRules,
                                      [key |-> artifactId, ref |-> new.ref])]
     ELSE [heap |-> AddTextLength(acc.heap, Get(failingRule), fragment.textLength),
           failingRules |-> acc.failingRules]

RECURSIVE ForEachFragment(_, _)
ForEachFragment(acc, refs) ==
  IF refs = <<>> THEN acc
  ELSE ForEachFragment(VisitFragment(acc, Head(refs)), Tail(refs))

getUniqueFailingRules(h, fontSizeArtifact) ==
  LET done == ForEachFragment([heap |-> h, failingRules |-> <<>>], fontSizeArtifact)
  IN [heap |-> done.heap,
      rules |-> [i \in 1..Len(done.failingRules) |-> done.failingRules[i].ref]]

(***************************************************************************)
(* failingRules.sort((a, b) => b.textLength - a.textLength): a stable sort *)
(* (ECMAScript 2019) by descending textLength, as an insertion sort.       *)
(***************************************************************************)
\* A changed Compare: ascending order.
CompareAscending(a, b) == a.textLength - b.textLength

\* a negative or zero result keeps a before b
Compare(a, b) == b.textLength - a.textLength

RECURSIVE InsertSorted(_, _, _)
InsertSorted(h, sorted, ref) ==
  IF sorted = <<>> THEN <<ref>>
  ELSE IF Compare(h[Head(sorted)], h[ref]) <= 0
       THEN <<Head(sorted)>> \o InsertSorted(h, Tail(sorted), ref)
       ELSE <<ref>> \o sorted

RECURSIVE SortRules(_, _)
SortRules(h, refs) ==
  IF refs = <<>> THEN <<>>
  ELSE InsertSorted(h, SortRules(h, SubSeq(refs, 1, Len(refs) - 1)), refs[Len(refs)])

(***************************************************************************)
(* `${(num / den * 100).toFixed(2)}%` for num >= 0, den > 0: the number of *)
(* hundredths of a percent printed, the nearest one, a tie rounding up.    *)
(***************************************************************************)
\* A changed ToFixed2: the digits after the second decimal are cut off.
ToFixed2Truncated(num, den) == (10000 * num) \div den

ToFixed2(num, den) == (2 * 10000 * num + den) \div (2 * den)

(***************************************************************************)
(* FontSize.audit(artifacts, context)                                      *)
(***************************************************************************)
headings ==
  <<[key |-> "source", itemType |-> "source-location", text |-> "Source"],
    [key |-> "selector", itemType |-> "code", text |-> "Selector"],
    [key |-> "coverage", itemType |-> "text", text |-> "% of Page Text"],
    [key |-> "fontSize", itemType |-> "text", text |-> "Font Size"]>>

\* ComputedViewportMeta.request(artifacts.MetaElements, context), the viewport
\* classifier: the page is mobile optimized when it has a viewport meta tag with
\* a device width.
ComputedViewportMeta(MetaElements) ==
  [isMobileOptimized |->
     \E i \in 1..Len(MetaElements) :
        /\ MetaElements[i].name = "viewport"
        /\ MetaElements[i].content = "width=device-width"]

\* Audit.makeTableDetails(headings, tableData): the details of the product, its
\* headings and its rows.
makeTableDetails(hs, tableData) ==
  [headings |-> hs, rows |-> tableData]

\* lines 277-286: the callback of map()
RuleRow(rule, totalTextLength, pageUrl) ==
  LET origin == findStyleRuleSource(pageUrl, rule.cssRule, rule.node)
  IN [source |-> origin.source,
      selector |-> origin.selector,
      coverage |-> ToFixed2(rule.textLength, totalTextLength),
      fontSize |-> ToString(rule.fontSize) \o "px"]

\* line 290
HasUnanalyzedText(FontSize) ==
  FontSize.analyzedFailingTextLength < FontSize.failingTextLength

\* line 303: percentageOfPassingText > 0, for totalTextLength > 0
HasPassingText(FontSize) ==
  (FontSize.totalTextLength - FontSize.failingTextLength) * 100 > 0

\* A changed Passed: the threshold itself fails.
PassedStrict(FontSize) ==
  (FontSize.totalTextLength - FontSize.failingTextLength) * 100
     > MINIMAL_PERCENTAGE_OF_LEGIBLE_TEXT * FontSize.totalTextLength

\* line 316: percentageOfPassingText >= MINIMAL_PERCENTAGE_OF_LEGIBLE_TEXT
Passed(FontSize) ==
  (FontSize.totalTextLength - FontSize.failingTextLength) * 100
     >= MINIMAL_PERCENTAGE_OF_LEGIBLE_TEXT * FontSize.totalTextLength

\* lines 263-322: the full analysis.  Returns the heap it leaves and the product.
FullAnalysis(h, arts) ==
  LET FontSize == arts.FontSize
      total == FontSize.totalTextLength
      unique == getUniqueFailingRules(h, FontSize.analyzedFailingNodesData)
      h2 == unique.heap
      sorted == SortRules(h2, unique.rules)
      ruleRows == [i \in 1..Len(sorted) |-> RuleRow(h2[sorted[i]], total, arts.URL.finalUrl)]
      addl == IF HasUnanalyzedText(FontSize)
              THEN <<[source |-> [type |-> "code", value |-> "Add'l illegible text"],
                      selector |-> StringSelector(""),
                      coverage |-> ToFixed2(FontSize.failingTextLength
                                              - FontSize.analyzedFailingTextLength, total),
                      fontSize |-> "< 12px"]>>
              ELSE <<>>
      legible == IF HasPassingText(FontSize)
                 THEN <<[source |-> [type |-> "code", value |-> "Legible text"],
                         selector |-> StringSelector(""),
                         coverage |-> ToFixed2(total - FontSize.failingTextLength, total),
                         fontSize |-> ">= 12px"]>>
                 ELSE <<>>
      tableData == ruleRows \o addl \o legible
  IN [heap |-> h2, failingRules |-> sorted,
      product |-> [score |-> IF Passed(FontSize) THEN 1 ELSE 0,
                   details |-> makeTableDetails(headings, tableData),
                   displayValue |-> [decimalProportion |->
                                       [num |-> total - FontSize.failingTextLength,
                                        den |-> total]]]]

\* A changed AuditAfterViewport: the empty page is looked at before the viewport.
AuditAfterViewportTextFirst(h, arts, viewportMeta) ==
  IF arts.FontSize.totalTextLength = 0
  THEN [heap |-> h, failingRules |-> <<>>, product |-> [score |-> 1]]
  ELSE IF ~viewportMeta.isMobileOptimized
  THEN [heap |-> h, failingRules |-> <<>>,
        product |-> [score |-> 0, explanation |-> explanationViewport]]
  ELSE FullAnalysis(h, arts)

\* lines 243-322: what audit does once the viewport classifier has answered
AuditAfterViewport(h, arts, viewportMeta) ==
  IF ~viewportMeta.isMobileOptimized
  THEN [heap |-> h, failingRules |-> <<>>,
        product |-> [score |-> 0, explanation |-> explanationViewport]]
  ELSE IF arts.FontSize.totalTextLength = 0
  THEN [heap |-> h, failingRules |-> <<>>, product |-> [score |-> 1]]
  ELSE FullAnalysis(h, arts)

(***************************************************************************)
(* Inputs.                                                                 *)
(***************************************************************************)
NodeIds == 1..2

\* DOM nodes: odd ids are <p class="a  b"> inside <DIV ID=" main ">, even ids are
\* parentless <span> elements.
NodeOf(nodeId) ==
  IF nodeId % 2 = 1
  THEN [nodeId |-> nodeId, localName |-> "p", attributes |-> <<"CLASS", "a  b">>,
        parentNode |-> Some([localName |-> "DIV", attributes |-> <<"ID", " main ">>,
                             parentNode |-> Absent])]
  ELSE [nodeId |-> nodeId, localName |-> "span", attributes |-> <<"class", "  ">>,
        parentNode |-> Absent]

pageUrl == "http://page/"

AuthorRule == [origin |-> "regular", selectors |-> <<[text |-> ".a"], [text |-> ".b"]>>]
UserAgentRule == [origin |-> "user-agent", selectors |-> <<[text |-> "small"]>>]

InlineSheet == [sourceURL |-> pageUrl, hasSourceURL |-> FALSE, isInline |-> TRUE,
                startLine |-> 5, startColumn |-> 2]

\* The style declarations of the audit's fragments: none, and a rule of an inline
\* <style> element.
AuditDeclarations ==
  {Absent,
   Some([type |-> "Regular", styleSheetId |-> "s1",
         range |-> Some([startLine |-> 0, startColumn |-> 3]),
         parentRule |-> Some(AuthorRule), stylesheet |-> Some(InlineSheet)])}

Fragment(nodeId, decl, textLength) ==
  [node |-> NodeOf(nodeId), cssRule |-> decl, fontSize |-> 9 + nodeId,
   textLength |-> textLength]

\* The fragments of the audit are one character long each; the rows get their
\* different lengths from merging.
AuditFragments ==
  {Fragment(n, d, 1) : n \in NodeIds, d \in AuditDeclarations}

\* The style declarations given to getUniqueFailingRules on its own: none, an
\* inline style that carries a stylesheet id and a range, Regular rules of
\* stylesheet s1 with no range or a range starting at 0:0, 0:1 or 1:0, and a
\* Regular rule of stylesheet s2 at 0:0.
AggRanges ==
  {Absent} \cup {Some([startLine |-> p[1], startColumn |-> p[2]]) :
                    p \in {<<0, 0>>, <<0, 1>>, <<1, 0>>}}

AggDeclarations ==
  {Absent,
   Some([type |-> "Inline", styleSheetId |-> "s1",
         range |-> Some([startLine |-> 0, startColumn |-> 0]),
         parentRule |-> Absent, stylesheet |-> Absent])}
  \cup {Some([type |-> "Regular", styleSheetId |-> "s1", range |-> r,
               parentRule |-> Some(AuthorRule), stylesheet |-> Absent]) :
           r \in AggRanges}
  \cup {Some([type |-> "Regular", styleSheetId |-> "s2",
               range |-> Some([startLine |-> 0, startColumn |-> 0]),
               parentRule |-> Some(AuthorRule), stylesheet |-> Absent])}

\* The text of node n is n characters long.
AggFragments ==
  {Fragment(n, d, n) : n \in NodeIds, d \in AggDeclarations}

\* The style declarations given to findStyleRuleSource on its own.  hasSourceURL
\* says that sourceURL is the raw value of a sourceURL comment (lines 156-157), so
\* a stylesheet with the flag carries that value.
SourceRanges ==
  {Absent} \cup {Some([startLine |-> l, startColumn |-> c]) :
                    l \in 0..MaxLine, c \in 0..MaxLine}

SourceStylesheets ==
  {Absent} \cup
  {Some([sourceURL |-> u.url, hasSourceURL |-> u.comment, isInline |-> inline,
         startLine |-> l, startColumn |-> c]) :
     u \in {[url |-> "", comment |-> FALSE], [url |-> pageUrl, comment |-> FALSE],
            [url |-> "app.css", comment |-> TRUE]},
     inline \in BOOLEAN, l \in 0..MaxLine, c \in 0..MaxLine}

SourceDeclarations ==
  {Absent} \cup
  {Some([type |-> t, styleSheetId |-> "s1", range |-> r, parentRule |-> pr,
         stylesheet |-> ss]) :
     t \in {"Regular", "Attributes", "Inline"}, r \in SourceRanges,
     pr \in {Absent, Some(AuthorRule), Some(UserAgentRule)}, ss \in SourceStylesheets}

HeapsOf(fragments) == UNION {[1..k -> fragments] : k \in 0..MaxFragments}

MetaElementsInputs ==
  {<<>>, <<[name |-> "viewport", content |-> "width=device-width"]>>}

NoArtifacts ==
  [TestedAsMobileDevice |-> FALSE, MetaElements |-> <<>>, URL |-> [finalUrl |-> pageUrl],
   FontSize |-> [analyzedFailingNodesData |-> <<>>, analyzedFailingTextLength |-> 0,
                 failingTextLength |-> 0, totalTextLength |-> 0]]

(***************************************************************************)
(* The audit as a state machine.  pc is the position of the async function:*)
(* "start" before the call, "awaitViewport" at its await, "done" after its *)
(* return.  result is the product of the last completed call.  The three   *)
(* lengths of the FontSize artifact are drawn independently of each other  *)
(* and of the fragments: audit accepts any of them.                        *)
(***************************************************************************)
Init ==
  /\ heap \in HeapsOf(AuditFragments)
  /\ \E mobile \in BOOLEAN, metas \in MetaElementsInputs,
        analyzed \in 0..MaxFragments, failing \in 0..MaxTotal, total \in 0..MaxTotal :
       artifacts = [TestedAsMobileDevice |-> mobile, MetaElements |-> metas,
                    URL |-> [finalUrl |-> pageUrl],
                    FontSize |-> [analyzedFailingNodesData |-> [i \in 1..Len(heap) |-> i],
                                  analyzedFailingTextLength |-> analyzed,
                                  failingTextLength |-> failing,
                                  totalTextLength |-> total]]
  /\ pc = "start"
  /\ result = Absent
  /\ failingRules = <<>>
  /\ styleDeclaration = Absent

\* lines 233-242: up to the await
AuditStart ==
  /\ pc = "start"
  /\ IF ~artifacts.TestedAsMobileDevice
     THEN /\ result' = Some([score |-> 1, notApplicable |-> TRUE])
          /\ failingRules' = <<>>
          /\ pc' = "done"
     ELSE /\ pc' = "awaitViewport"
          /\ UNCHANGED <<result, failingRules>>
  /\ UNCHANGED <<heap, artifacts, styleDeclaration>>

\* lines 242-322: the classifier answers and the function runs to its return.
\* The objects allocated during the call are dropped with it.
AuditResume ==
  /\ pc = "awaitViewport"
  /\ LET out == AuditAfterViewport(heap, artifacts,
                                   ComputedViewportMeta(artifacts.MetaElements))
     IN /\ result' = Some(out.product)
        /\ failingRules' = [i \in 1..Len(out.failingRules) |->
                              out.heap[out.failingRules[i]]]
        /\ heap' = SubSeq(out.heap, 1, Len(heap))
  /\ pc' = "done"
  /\ UNCHANGED <<artifacts, styleDeclaration>>

\* The audit is run again on the same artifact objects.
AuditAgain ==
  /\ pc = "done"
  /\ pc' = "start"
  /\ UNCHANGED <<heap, artifacts, result, failingRules, styleDeclaration>>

Next == AuditStart \/ AuditResume \/ AuditAgain

Spec == Init /\ [][Next]_vars

(***************************************************************************)
(* getUniqueFailingRules on its own: Init draws the fragment array, the    *)
(* action applies the function.  The fragment arrays drawn are all the     *)
(* sequences over AggFragments, so every permutation of an input is an     *)
(* input too.  result holds a copy of the objects of the returned array.   *)
(***************************************************************************)
InitAgg ==
  /\ heap \in HeapsOf(AggFragments)
  /\ artifacts = [NoArtifacts EXCEPT
                    !.FontSize.analyzedFailingNodesData = [i \in 1..Len(heap) |-> i]]
  /\ pc = "input"
  /\ result = Absent
  /\ failingRules = <<>>
  /\ styleDeclaration = Absent

Aggregate ==
  /\ pc = "input"
  /\ LET out == getUniqueFailingRules(heap, artifacts.FontSize.analyzedFailingNodesData)
     IN /\ result' = Some([i \in 1..Len(out.rules) |-> out.heap[out.rules[i]]])
        /\ heap' = SubSeq(out.heap, 1, Len(heap))
  /\ pc' = "aggregated"
  /\ UNCHANGED <<artifacts, failingRules, styleDeclaration>>

NextAgg == Aggregate

SpecAgg == InitAgg /\ [][NextAgg]_vars

(***************************************************************************)
(* findStyleRuleSource on its own: Init draws the style declaration and    *)
(* the node (the one object of the heap), the action applies the function. *)
(***************************************************************************)
InitSource ==
  /\ styleDeclaration \in SourceDeclarations
  /\ \E n \in NodeIds : heap = <<Fragment(n, styleDeclaration, 1)>>
  /\ artifacts = NoArtifacts
  /\ pc = "input"
  /\ result = Absent
  /\ failingRules = <<>>

Locate ==
  /\ pc = "input"
  /\ result' = Some(findStyleRuleSource(artifacts.URL.finalUrl, styleDeclaration,
                                        heap[1].node))
  /\ pc' = "located"
  /\ UNCHANGED <<heap, artifacts, failingRules, styleDeclaration>>

NextSource == Locate

SpecSource == InitSource /\ [][NextSource]_vars

(***************************************************************************)
(* Vocabulary of the properties of the audit.                              *)
(***************************************************************************)
FontSizeArtifact == artifacts.FontSize
fragmentRefs == FontSizeArtifact.analyzedFailingNodesData
total == FontSizeArtifact.totalTextLength
failing == FontSizeArtifact.failingTextLength
analyzed == FontSizeArtifact.analyzedFailingTextLength

Mobile == artifacts.TestedAsMobileDevice
MobileOptimized == ComputedViewportMeta(artifacts.MetaElements).isMobileOptimized

\* audit has returned from its full analysis
FullReport == pc = "done" /\ Mobile /\ MobileOptimized /\ total # 0
product == Get(result)
items == product.details.rows

RECURSIVE SumOver(_, _)
SumOver(S, f) ==
  IF S = {} THEN 0
  ELSE LET x == CHOOSE y \in S : TRUE IN f[x] + SumOver(S \ {x}, f)

FragmentTextLength == SumOver(1..Len(heap), [ref \in 1..Len(heap) |-> heap[ref].textLength])

\* The artifacts the gatherer hands over: the analyzed length is the length of the
\* analyzed fragments, which are some of the failing text, which is some of the text.
GathererArtifact ==
  /\ analyzed = FragmentTextLength
  /\ analyzed <= failing
  /\ failing <= total

\* The ArtifactId of the fragment at position k of analyzedFailingNodesData.
IdAt(k) == getFontArtifactId(heap[fragmentRefs[k]].cssRule, heap[fragmentRefs[k]].node)
Positions == 1..Len(fragmentRefs)
\* The positions at which an ArtifactId is seen for the first time.
FirstSeen == {k \in Positions : \A m \in 1..(k - 1) : IdAt(m) # IdAt(k)}
\* The summed textLength of the fragments that share the id of position k.
IdTotal(k) ==
  SumOver({m \in Positions : IdAt(m) = IdAt(k)},
          [m \in Positions |-> heap[fragmentRefs[m]].textLength])

\* C1: audit stops at the first terminal state that matches: not mobile gives
\* exactly {score: 1, notApplicable: true}; else a viewport that is not mobile
\* optimized gives score 0 with the viewport explanation and no details; else no
\* text gives exactly {score: 1}; a details table is there only when none applies.
C1_FirstTerminalStateWins ==
  pc = "done" =>
    /\ ~Mobile => product = [score |-> 1, notApplicable |-> TRUE]
    /\ (Mobile /\ ~MobileOptimized) =>
         /\ product.score = 0
         /\ product.explanation = explanationViewport
         /\ "details" \notin DOMAIN product
    /\ (Mobile /\ MobileOptimized /\ total = 0) => product = [score |-> 1]
    /\ "details" \in DOMAIN product <=> (Mobile /\ MobileOptimized /\ total # 0)

\* a mobile run without a mobile viewport on a page without text has failed
C1_Witness ==
  /\ pc = "done" /\ Mobile /\ ~MobileOptimized /\ total = 0
  /\ product.score = 0

\* C2: in a full analysis the score is 1 exactly when at least 60% of the text
\* passes, that is when at most 40% of the text fails; the analyzed fragments and
\* analyzedFailingTextLength play no part.
C2_ScoreIffSixtyPercent ==
  FullReport =>
    /\ product.score \in {0, 1}
    /\ product.score = 1 <=> 10 * failing <= 4 * total

\* exactly 60% of the text passes, and the audit passes
C2_Witness ==
  /\ FullReport /\ 5 * (total - failing) = 3 * total
  /\ product.score = 1
  /\ analyzed # FragmentTextLength

\* The first-seen positions in the order of the table: by descending summed
\* textLength, equal sums by position.
TableOrder ==
  CHOOSE order \in [1..Cardinality(FirstSeen) -> FirstSeen] :
    /\ \A a, b \in DOMAIN order : a # b => order[a] # order[b]
    /\ \A a, b \in DOMAIN order :
         a < b => \/ IdTotal(order[a]) > IdTotal(order[b])
                  \/ IdTotal(order[a]) = IdTotal(order[b]) /\ order[a] < order[b]

IsAddlRow(row) == row.source = [type |-> "code", value |-> "Add'l illegible text"]
IsLegibleRow(row) == row.source = [type |-> "code", value |-> "Legible text"]
nRuleRows == Cardinality(FirstSeen)

\* C3: the table is the rule rows by descending textLength (equal ones in
\* first-seen order), then the Add'l illegible text row exactly when
\* analyzedFailingTextLength < failingTextLength, then the Legible text row
\* exactly when the passing percentage is positive, and nothing else.
C3_TableLayout ==
  FullReport =>
    LET addl == IF analyzed < failing THEN 1 ELSE 0
        legible == IF total - failing > 0 THEN 1 ELSE 0
    IN /\ Len(items) = nRuleRows + addl + legible
       /\ \A i \in 1..nRuleRows :
            LET first == heap[fragmentRefs[TableOrder[i]]]
            IN items[i] = RuleRow([first EXCEPT !.textLength = IdTotal(TableOrder[i])],
                                  total, artifacts.URL.finalUrl)
       /\ addl = 1 => IsAddlRow(items[nRuleRows + 1])
       /\ legible = 1 => IsLegibleRow(items[Len(items)])
       /\ \A i \in 1..nRuleRows : ~IsAddlRow(items[i]) /\ ~IsLegibleRow(items[i])

\* rule rows that the sort had to reorder (a merged rule seen after a smaller one),
\* followed by both synthetic rows
C3_Witness ==
  /\ FullReport
  /\ nRuleRows >= 2
  /\ \E i \in 1..nRuleRows : \E j \in (i + 1)..nRuleRows : TableOrder[i] > TableOrder[j]
  /\ Len(items) = nRuleRows + 2

RuleTextLength == SeqSum([i \in 1..Len(failingRules) |-> failingRules[i].textLength])

\* C4 as stated, on the artifacts of the gatherer: the textLength of the
\* aggregated rows plus the passing text length is totalTextLength.
C4_RowsPlusPassingIsTotal ==
  (FullReport /\ GathererArtifact /\ heap # <<>>) =>
    RuleTextLength + (total - failing) = total

\* C4 amended: the aggregated rows carry the textLength of all the fragments;
\* on the artifacts of the gatherer, that sum plus the failing text that was not
\* analyzed plus the passing text length is totalTextLength.
C4_RowsCarryFragmentText ==
  FullReport =>
    /\ RuleTextLength = FragmentTextLength
    /\ GathererArtifact => RuleTextLength + (failing - analyzed) + (total - failing) = total

\* fragments were merged, and some failing text was not analyzed
C4_Witness ==
  /\ FullReport /\ GathererArtifact
  /\ Len(failingRules) < Len(heap)
  /\ analyzed < failing

CoverageSum == SeqSum([i \in 1..Len(items) |-> items[i].coverage])
Distance(a, b) == IF a >= b THEN a - b ELSE b - a

\* C5 as stated, on the artifacts of the gatherer: the coverages of the rows, in
\* hundredths of a percent, are within 0.01% of 100%.
C5_CoverageWithinOneHundredth ==
  (FullReport /\ GathererArtifact) => Distance(CoverageSum, 10000) <= 1

\* C5 amended: on the artifacts of the gatherer the coverages of the rows are
\* within 0.005% per row of 100%.
C5_CoverageWithinHalfPerRow ==
  (FullReport /\ GathererArtifact) => 2 * Distance(CoverageSum, 10000) <= Len(items)

\* five rows whose rounded coverages add up to 100.02%
C5_Witness ==
  /\ FullReport /\ GathererArtifact
  /\ Len(items) = 5
  /\ CoverageSum = 10002

\* C10: no step of the audit changes the fragment objects, the artifacts or the
\* order of analyzedFailingNodesData, and a run that follows a completed run
\* returns what that run returned.
C10_InputsNeverMutated ==
  [][/\ heap' = heap
     /\ artifacts' = artifacts
     /\ (pc' = "done" /\ result # Absent) => result' = result]_vars

\* a second run is under way after a full analysis that merged fragments
C10_Witness ==
  /\ pc = "awaitViewport" /\ result # Absent
  /\ "details" \in DOMAIN product
  /\ Len(failingRules) < Len(heap)

(***************************************************************************)
(* Properties of getUniqueFailingRules (SpecAgg).                          *)
(***************************************************************************)
aggregated == Get(result)
fragmentAt(k) == heap[fragmentRefs[k]]

SortedSeq(S) ==
  CHOOSE order \in [1..Cardinality(S) -> S] :
    \A a, b \in DOMAIN order : a < b => order[a] < order[b]

IsRegular(fragment) ==
  fragment.cssRule # Absent /\ Get(fragment.cssRule).type = "Regular"

\* Where a rule starts, a rule without a range starting at 0:0.
RangeStart(decl) ==
  IF decl.range = Absent THEN <<0, 0>>
  ELSE <<Get(decl.range).startLine, Get(decl.range).startColumn>>

\* The fragments that C6 says collapse: Regular rules of the same stylesheet with
\* the same range, and fragments without a Regular rule of the same node.
SameRowAsStated(f, g) ==
  IF IsRegular(f) /\ IsRegular(g)
  THEN /\ Get(f.cssRule).styleSheetId = Get(g.cssRule).styleSheetId
       /\ Get(f.cssRule).range = Get(g.cssRule).range
  ELSE ~IsRegular(f) /\ ~IsRegular(g) /\ f.node.nodeId = g.node.nodeId

\* The same, a rule without a range counting as a rule that starts at 0:0.
SameRowAmended(f, g) ==
  IF IsRegular(f) /\ IsRegular(g)
  THEN /\ Get(f.cssRule).styleSheetId = Get(g.cssRule).styleSheetId
       /\ RangeStart(Get(f.cssRule)) = RangeStart(Get(g.cssRule))
  ELSE ~IsRegular(f) /\ ~IsRegular(g) /\ f.node.nodeId = g.node.nodeId

\* The rows that merging by SameRow gives: one row per class of fragments, in the
\* order of the first fragment of each class, with the summed textLength.
RowsMergedBy(SameRow(_, _)) ==
  LET firsts == SortedSeq({k \in Positions :
                             \A m \in 1..(k - 1) : ~SameRow(fragmentAt(m), fragmentAt(k))})
  IN [i \in DOMAIN firsts |->
        [fragmentAt(firsts[i]) EXCEPT
           !.textLength =
              SumOver({m \in Positions : SameRow(fragmentAt(m), fragmentAt(firsts[i]))},
                      [m \in Positions |-> fragmentAt(m).textLength])]]

\* C6 as stated: the rows are the fragments merged by same stylesheet and same
\* range (Regular rules) or same node (the others).
C6_MergedByStylesheetAndRange ==
  pc = "aggregated" => aggregated = RowsMergedBy(SameRowAsStated)

\* C6 amended: two Regular fragments collapse exactly when they have the same
\* styleSheetId and the same range start, a rule without a range counting as one
\* that starts at 0:0; fragments without a Regular rule collapse exactly with
\* the fragments without a Regular rule of the same nodeId.
C6_MergedByStylesheetAndRangeStart ==
  pc = "aggregated" => aggregated = RowsMergedBy(SameRowAmended)

\* two Regular fragments of different nodes at the same place became one row, a
\* third that differs from them in its range alone became another
C6_Witness ==
  /\ pc = "aggregated" /\ Len(heap) = 3 /\ Len(aggregated) = 2
  /\ \A k \in 1..3 : IsRegular(heap[k])
  /\ heap[1].node # heap[2].node /\ heap[1].cssRule = heap[2].cssRule
  /\ Get(heap[3].cssRule).styleSheetId = Get(heap[1].cssRule).styleSheetId
  /\ Get(heap[3].cssRule).range # Get(heap[1].cssRule).range
  /\ Get(heap[3].cssRule).range # Absent /\ Get(heap[1].cssRule).range # Absent

Swap(seq, i) ==
  [k \in DOMAIN seq |-> IF k = i THEN seq[i + 1] ELSE IF k = i + 1 THEN seq[i] ELSE seq[k]]

RowId(row) == getFontArtifactId(row.cssRule, row.node)
\* The set of <<ArtifactId, textLength>> of a sequence of aggregated rows.
TotalsById(rs) == {<<RowId(rs[i]), rs[i].textLength>> : i \in DOMAIN rs}

RowsOf(refs) ==
  LET out == getUniqueFailingRules(heap, refs)
  IN [i \in 1..Len(out.rules) |-> out.heap[out.rules[i]]]

\* C7: the row of an ArtifactId carries the summed textLength of all the fragments
\* with that id, whatever their order, so exchanging two neighbours of the input
\* (and so any permutation) leaves the total of every id as it is; the rows come
\* in first-seen order of the ids, with node, cssRule and fontSize of the first
\* fragment of the id.
C7_TotalsIndependentOfOrder ==
  pc = "aggregated" =>
    LET firsts == SortedSeq(FirstSeen)
    IN /\ Len(aggregated) = Len(firsts)
       /\ \A i \in DOMAIN firsts :
            /\ aggregated[i].textLength = IdTotal(firsts[i])
            /\ aggregated[i].node = fragmentAt(firsts[i]).node
            /\ aggregated[i].cssRule = fragmentAt(firsts[i]).cssRule
            /\ aggregated[i].fontSize = fragmentAt(firsts[i]).fontSize
       /\ \A i \in 1..(Len(fragmentRefs) - 1) :
            TotalsById(RowsOf(Swap(fragmentRefs, i))) = TotalsById(aggregated)

\* two fragments with the same id and different font sizes: exchanging them keeps
\* the total and changes the fontSize of the row
C7_Witness ==
  /\ pc = "aggregated" /\ Len(aggregated) < Len(heap)
  /\ \E i \in 1..(Len(fragmentRefs) - 1) :
       /\ IdAt(i) = IdAt(i + 1)
       /\ RowsOf(Swap(fragmentRefs, i)) # aggregated

(***************************************************************************)
(* Properties of findStyleRuleSource (SpecSource).                         *)
(***************************************************************************)
located == Get(result)
declaration == Get(styleDeclaration)

\* C8: in a source-location, line and column are those of the range, moved by the
\* start of the <style> element when the stylesheet is inline and has no sourceURL
\* comment (the column only for a range of line 0); urlProvider is "comment"
\* exactly when hasSourceURL is true and "network" otherwise.
C8_SourceLocationOffsets ==
  (pc = "located" /\ located.source.type = "source-location") =>
    LET range == Get(declaration.range)
        stylesheet == Get(declaration.stylesheet)
        source == located.source
    IN /\ (stylesheet.isInline /\ ~stylesheet.hasSourceURL) =>
            /\ source.line = range.startLine + stylesheet.startLine
            /\ range.startLine = 0 =>
                 source.column = range.startColumn + stylesheet.startColumn
            /\ range.startLine # 0 => source.column = range.startColumn
       /\ (~stylesheet.isInline \/ stylesheet.hasSourceURL) =>
            /\ source.line = range.startLine
            /\ source.column = range.startColumn
       /\ stylesheet.hasSourceURL => source.urlProvider = "comment"
       /\ ~stylesheet.hasSourceURL => source.urlProvider = "network"

\* an inline stylesheet that starts at a column past 0, a rule on a later line of
\* it: the line is moved and the column is not
C8_Witness ==
  /\ pc = "located" /\ located.source.type = "source-location"
  /\ Get(declaration.stylesheet).isInline /\ ~Get(declaration.stylesheet).hasSourceURL
  /\ Get(declaration.stylesheet).startLine > 0
  /\ Get(declaration.stylesheet).startColumn > 0
  /\ Get(declaration.range).startLine > 0
  /\ located.source.column = Get(declaration.range).startColumn

\* a Regular style declaration whose parentRule is not of user-agent origin
AuthorDeclaration ==
  /\ styleDeclaration # Absent
  /\ declaration.type = "Regular"
  /\ ~(declaration.parentRule # Absent /\ Get(declaration.parentRule).origin = "user-agent")

====
